---- MODULE Spec2Model ----
(***************************************************************************)
(* A model of wtdbm (src/wtdbm/wtdbm.py): the mapping interface            *)
(* WiredTigerDBM over one table of the WiredTiger engine.                  *)
(*                                                                         *)
(* Every public method is one action (the program is synchronous and       *)
(* single-threaded).  The engine is a black box: each engine call has a    *)
(* natural outcome decided by the engine state (read-only connection,      *)
(* missing table, running transaction) and at most one call per operation  *)
(* may be hit by an injected failure (a raised WiredTigerError, a raised   *)
(* WT_PANIC, or a non-zero return code).  Between two calls the caller     *)
(* takes the result of the first (Resume); last holds the call and its     *)
(* result until then.  A keys() / values() / items() sequence is taken by  *)
(* its caller in one piece: so many entries are asked for, then the        *)
(* generator is dropped.                                                   *)
(***************************************************************************)
EXTENDS Integers, Sequences, FiniteSets, TLC

\* ------------------------------------------------------------------ bounds

\* longest source handed to update()
MaxSrcLen == 2

\* most entries a caller takes from one keys() / values() / items() sequence
MaxTake == 3

\* largest code point of Latin-1 (str.encode("Latin-1"))
LatinMax == 255

\* ------------------------------------------------------- python objects

Bytes(d) == [t |-> "bytes", d |-> d]
Str(d) == [t |-> "str", d |-> d]
IntObj == [t |-> "int", d |-> <<5>>]
NoneObj == [t |-> "NoneType", d |-> <<>>]
TrueObj == [t |-> "bool", d |-> <<1>>]
FalseObj == [t |-> "bool", d |-> <<0>>]
\* _DEFAULT = object()
DefaultObj == [t |-> "_DEFAULT", d |-> <<>>]
\* list(...) of what a generator yielded
List(elems) == [t |-> "list", d |-> elems]
\* the number of entries a caller asks of a sequence
Count(n) == [t |-> "int", d |-> <<n>>]

\* keys and values a caller passes: bytes, Latin-1 text, text outside
\* Latin-1, and an object that is neither bytes nor text
KeyObjs == {Bytes(<<97>>), Bytes(<<98>>), Str(<<97>>), IntObj}
ValObjs == {Bytes(<<120>>), Str(<<233>>), Str(<<8364>>), IntObj}
DefaultObjs == {DefaultObj, NoneObj}

\* the entries update() sources are built from: two keys that are different
\* objects with the same bytes, and a key the codec rejects
SrcPairs ==
  { <<Bytes(<<97>>), Bytes(<<120>>)>>,
    <<Str(<<97>>), Str(<<233>>)>>,
    <<IntObj, Bytes(<<120>>)>> }

Sources == UNION { [1..n -> SrcPairs] : n \in 0..MaxSrcLen }

\* the three kinds of source update() tells apart: a Mapping, an object with keys()
\* and indexed lookup, an iterable of pairs
Forms == {"Mapping", "keys", "pairs"}
SourceObj(form) == [t |-> form, d |-> <<>>]
\* a source of each kind, as the (key, value) sequence it holds: the keys of a
\* Mapping are distinct objects
SourcesOf(form) ==
  IF form = "Mapping"
  THEN { d \in Sources : \A i, j \in DOMAIN d : d[i][1] = d[j][1] => i = j }
  ELSE Sources

\* ----------------------------------------------------------------- codec

\* str.encode("Latin-1"): one byte per code point, UnicodeEncodeError above 255
EncodeLatin1(d) ==
  IF \A i \in DOMAIN d : d[i] <= LatinMax
  THEN [ok |-> TRUE, raw |-> [i \in DOMAIN d |-> d[i] % (LatinMax + 1)], exc |-> ""]
  ELSE [ok |-> FALSE, raw |-> <<>>, exc |-> "UnicodeEncodeError"]

_pre_key(key) ==
  IF key.t = "bytes" THEN [ok |-> TRUE, raw |-> key.d, exc |-> ""]
  ELSE IF key.t = "str" THEN EncodeLatin1(key.d)
  ELSE [ok |-> FALSE, raw |-> <<>>, exc |-> "TypeError"]

_post_key(raw) == Bytes(raw)

\* str.encode("utf-8") of code points below 65536
EncodeUtf8(d) ==
  LET enc(c) == IF c < 128 THEN <<c>>
                ELSE IF c < 2048 THEN <<192 + (c \div 64), 128 + (c % 64)>>
                ELSE <<224 + (c \div 4096), 128 + ((c \div 64) % 64), 128 + (c % 64)>>
      F[i \in 0..Len(d)] == IF i = 0 THEN <<>> ELSE F[i - 1] \o enc(d[i])
  IN [ok |-> TRUE, raw |-> F[Len(d)], exc |-> ""]

\* _pre_value with text encoded as UTF-8 instead of Latin-1
_pre_value_utf8(value) ==
  IF value.t = "bytes" THEN [ok |-> TRUE, raw |-> value.d, exc |-> ""]
  ELSE IF value.t = "str" THEN EncodeUtf8(value.d)
  ELSE [ok |-> FALSE, raw |-> <<>>, exc |-> "TypeError"]

_pre_value(value) ==
  IF value.t = "bytes" THEN [ok |-> TRUE, raw |-> value.d, exc |-> ""]
  ELSE IF value.t = "str" THEN EncodeLatin1(value.d)
  ELSE [ok |-> FALSE, raw |-> <<>>, exc |-> "TypeError"]

\* _post_value decoding the stored bytes back to text
_post_value_text(raw) == Str(raw)

_post_value(raw) == Bytes(raw)

\* ------------------------------------------------------ what a call yields

\* what one engine call does: 0, WT_NOTFOUND, another return code, or a raised WiredTigerError
Ok == [st |-> "ok", msg |-> ""]
NotFound == [st |-> "notfound", msg |-> ""]
Code == [st |-> "code", msg |-> ""]
Exc(msg) == [st |-> "exc", msg |-> msg]

\* The result of a public call.  eng records the engine failure met during the call
\* (Ok if none): it is not program state, it is what the claims about failures speak of.
Ret(v) == [k |-> "return", exc |-> "", msg |-> "", val |-> v, eng |-> Ok]
Raise(exc, msg) == [k |-> "raise", exc |-> exc, msg |-> msg, val |-> NoneObj, eng |-> Ok]
\* an exception raised because the engine call e failed
Fail(exc, msg, e) == [k |-> "raise", exc |-> exc, msg |-> msg, val |-> NoneObj, eng |-> e]
\* sys.exit(msg)
Exit(msg, e) == [k |-> "exit", exc |-> "SystemExit", msg |-> msg, val |-> NoneObj, eng |-> e]

\* ----------------------------------------------------------------- state

VARIABLES
  alive,    \* the process has not been terminated by sys.exit
  home,     \* the location: "absent", "empty" (a directory), "init" (a database)
  conn,     \* the engine connection is open
  sess,     \* the engine session is open
  store,    \* the caller holds a Store (the constructor returned, close() not yet called)
  ro,       \* the connection was opened with the readonly flag
  exists,   \* the table exists
  tbl,      \* the table as the session sees it: raw key -> raw value
  txn,      \* a transaction is running on the session
  snap,     \* the table as it was when the running transaction began
  atClose,  \* what the Store showed when close() was last called
  cursors,  \* the number of cursors open on the session
  last      \* the last public call: its inputs, the injected failure, the result, the table before

vars == <<alive, home, conn, sess, store, ro, exists, tbl, txn, snap, atClose, cursors, last>>

EmptyTable == [x \in {} |-> <<>>]

Put(t, k, v) == [x \in (DOMAIN t) \cup {k} |-> IF x = k THEN v ELSE t[x]]
Del(t, k) == [x \in (DOMAIN t) \ {k} |-> t[x]]

\* ---------------------------------------------------------------- engine

\* messages of the engine's WiredTigerError
PanicMsg == "WT_PANIC: WiredTiger library panic"
RollbackMsg == "WT_ROLLBACK: conflict between concurrent operations"
NoEntMsg == "No such file or directory"
NotSupMsg == "Operation not supported"
InvalMsg == "Invalid argument"
BusyMsg == "Device or resource busy"
DupMsg == "WT_DUPLICATE_KEY: attempt to insert an existing key"
\* what the binding raises when a handle is used after its close()
ClosedMsg == "closed handle"

\* msg.startswith("WT_PANIC:")
IsPanic(msg) == msg = PanicMsg

\* an injected failure: the n-th call of that name in the operation fails in that way
NoFault == [call |-> "none", n |-> 0, kind |-> "none"]
Fault(call, n, kind) == [call |-> call, n |-> n, kind |-> kind]
Raised == {"raise", "panic"}
Failing == {"raise", "panic", "code"}
\* the entry the cursor stands on is removed by another session before the call
Gone == "gone"

Faults(calls, kinds) == { Fault(c, 1, kd) : c \in calls, kd \in kinds }

\* the outcome of a call: the injected one if this call is the one hit, else the natural one
Call(f, call, n, natural) ==
  IF f.call = call /\ f.n = n
  THEN CASE f.kind = "raise" -> Exc(RollbackMsg)
         [] f.kind = "panic" -> Exc(PanicMsg)
         [] f.kind = "code" -> Code
         [] f.kind = Gone -> NotFound
         [] OTHER -> natural
  ELSE natural

\* session.open_cursor("table:wtdbm", ...)
open_cursor(f) == Call(f, "open_cursor", 1, IF exists THEN Ok ELSE Exc(NoEntMsg))
\* cursor.search()
search(f, t, k) == Call(f, "search", 1, IF k \in DOMAIN t THEN Ok ELSE NotFound)
\* cursor.insert(): refused on a read-only connection; without overwrite an
\* existing key is a duplicate
insert(f, n, t, k, config) ==
  Call(f, "insert", n,
       IF ro THEN Exc(NotSupMsg)
       ELSE IF config = "overwrite=false" /\ k \in DOMAIN t THEN Exc(DupMsg)
       ELSE Ok)
\* cursor.remove(): refused on a read-only connection; with overwrite a missing
\* key is not reported
remove(f, t, k, config) ==
  Call(f, "remove", 1,
       IF ro THEN Exc(NotSupMsg)
       ELSE IF k \in DOMAIN t \/ config = "overwrite=true" THEN Ok
       ELSE NotFound)
\* byte strings as the engine compares them: a sorts before b
RECURSIVE Before(_, _)
Before(a, b) ==
  IF a = <<>> THEN b # <<>>
  ELSE IF b = <<>> THEN FALSE
  ELSE IF a[1] # b[1] THEN a[1] < b[1]
  ELSE Before(Tail(a), Tail(b))
\* the keys ks in the order a forward cursor visits them
RECURSIVE EngineOrder(_)
EngineOrder(ks) ==
  IF ks = {} THEN <<>>
  ELSE LET m == CHOOSE k \in ks : \A o \in ks \ {k} : Before(k, o)
       IN <<m>> \o EngineOrder(ks \ {m})
\* the n-th cursor.next() of a fresh cursor: the n-th entry, or WT_NOTFOUND after the last
cursor_next(f, n, t) ==
  Call(f, "next", n, IF n <= Cardinality(DOMAIN t) THEN Ok ELSE NotFound)
\* session.begin_transaction(): one transaction per session
begin_transaction(f) == Call(f, "begin_transaction", 1, IF txn THEN Exc(InvalMsg) ELSE Ok)
\* session.rollback_transaction(): only permitted in a running transaction
rollback_transaction(f, running) ==
  Call(f, "rollback_transaction", 1, IF running THEN Ok ELSE Exc(InvalMsg))
\* session.commit_transaction()
commit_transaction(f) == Call(f, "commit_transaction", 1, Ok)
\* session.drop("table:wtdbm", "force=..."): a schema operation
drop(f, force, ex, readonly, running) ==
  Call(f, "drop", 1,
       IF readonly THEN Exc(NotSupMsg)
       ELSE IF running THEN Exc(InvalMsg)
       ELSE IF ~ex /\ ~force THEN Exc(NoEntMsg)
       ELSE Ok)
\* session.create("table:wtdbm", "...,exclusive=false")
create(f, readonly, running) ==
  Call(f, "create", 1,
       IF readonly THEN Exc(NotSupMsg) ELSE IF running THEN Exc(InvalMsg) ELSE Ok)

\* the engine state an operation leaves, with the operation's result
Out(res, t, x, s, ex) == [res |-> res, tbl |-> t, txn |-> x, snap |-> s, exists |-> ex]
\* an operation that changes nothing in the engine
Same(res) == Out(res, tbl, txn, snap, exists)

\* ------------------------------------------------ cursor-scoped operations

\* the configuration each method opens its cursor with
SetItemConfig == "overwrite=true"
\* __delitem__ with a cursor that overwrites
DelItemConfigOverwrite == "overwrite=true"
DelItemConfig == "overwrite=false"
PopConfig == "overwrite=false"
UpdateConfig == "overwrite=true"
SetDefaultConfig == "overwrite=false"

\* WiredTigerDBM.__getitem__
__getitem__(key, f) ==
  LET oc == open_cursor(f)
      pk == _pre_key(key)
      s == search(f, tbl, pk.raw)
  IN IF oc.st = "exc" THEN Fail("WiredTigerError", oc.msg, oc)
     ELSE IF ~pk.ok THEN Raise(pk.exc, "")
     ELSE CASE s.st = "ok" -> Ret(_post_value(tbl[pk.raw]))
            [] s.st = "notfound" -> Raise("KeyError", "not found")
            [] s.st = "code" -> Fail("error", "Unknown return code", s)
            [] s.st = "exc" -> Fail("WiredTigerError", s.msg, s)

\* WiredTigerDBM.__contains__
__contains__(key, f) ==
  LET oc == open_cursor(f)
      pk == _pre_key(key)
      s == search(f, tbl, pk.raw)
  IN IF oc.st = "exc" THEN Fail("WiredTigerError", oc.msg, oc)
     ELSE IF ~pk.ok THEN Raise(pk.exc, "")
     ELSE CASE s.st = "ok" -> Ret(TrueObj)
            [] s.st = "notfound" -> Ret(FalseObj)
            [] s.st = "code" -> Fail("error", "Unknown return code", s)
            [] s.st = "exc" -> Fail("WiredTigerError", s.msg, s)

\* get() answered by __getitem__
get_by_getitem(key, default, f) == __getitem__(key, f)

\* WiredTigerDBM.get
get(key, default, f) ==
  LET oc == open_cursor(f)
      pk == _pre_key(key)
      s == search(f, tbl, pk.raw)
  IN IF oc.st = "exc" THEN Fail("WiredTigerError", oc.msg, oc)
     ELSE IF ~pk.ok THEN Raise(pk.exc, "")
     ELSE CASE s.st = "ok" -> Ret(_post_value(tbl[pk.raw]))
            [] s.st = "notfound" -> Ret(default)
            [] s.st = "code" -> Fail("error", "Unknown return code", s)
            [] s.st = "exc" -> Fail("WiredTigerError", s.msg, s)

\* WiredTigerDBM.__setitem__: the except clause turns a raised WiredTigerError into error
__setitem__(key, value, f) ==
  LET oc == open_cursor(f)
      pk == _pre_key(key)
      pv == _pre_value(value)
      i == insert(f, 1, tbl, pk.raw, SetItemConfig)
  IN IF oc.st = "exc" THEN Same(Fail("WiredTigerError", oc.msg, oc))
     ELSE IF ~pk.ok THEN Same(Raise(pk.exc, ""))
     ELSE IF ~pv.ok THEN Same(Raise(pv.exc, ""))
     ELSE CASE i.st = "ok" -> Out(Ret(NoneObj), Put(tbl, pk.raw, pv.raw), txn, snap, exists)
            [] i.st = "exc" -> Same(Fail("error", i.msg, i))
            [] OTHER -> Same(Fail("error", "Unknown return code", i))

\* WiredTigerDBM.__delitem__
__delitem__(key, f) ==
  LET oc == open_cursor(f)
      pk == _pre_key(key)
      r == remove(f, tbl, pk.raw, DelItemConfig)
  IN IF oc.st = "exc" THEN Same(Fail("WiredTigerError", oc.msg, oc))
     ELSE IF ~pk.ok THEN Same(Raise(pk.exc, ""))
     ELSE CASE r.st = "ok" -> Out(Ret(NoneObj), Del(tbl, pk.raw), txn, snap, exists)
            [] r.st = "notfound" -> Same(Raise("KeyError", "not found"))
            [] r.st = "code" -> Same(Fail("error", "Unknown return code", r))
            [] r.st = "exc" -> Same(Fail("WiredTigerError", r.msg, r))

\* WiredTigerDBM.pop: search, then remove; no except clause
pop(key, default, f) ==
  LET oc == open_cursor(f)
      pk == _pre_key(key)
      s == search(f, tbl, pk.raw)
      r == remove(f, tbl, pk.raw, PopConfig)
  IN IF oc.st = "exc" THEN Same(Fail("WiredTigerError", oc.msg, oc))
     ELSE IF ~pk.ok THEN Same(Raise(pk.exc, ""))
     ELSE CASE s.st = "ok" ->
                 ( CASE r.st = "ok" ->
                          Out(Ret(_post_value(tbl[pk.raw])), Del(tbl, pk.raw), txn, snap, exists)
                     [] r.st = "exc" -> Same(Fail("WiredTigerError", r.msg, r))
                     [] r.st = "notfound" ->
                          Out(Fail("error", "remove failed", r), Del(tbl, pk.raw), txn, snap, exists)
                     [] OTHER -> Same(Fail("error", "remove failed", r)) )
            [] s.st = "notfound" -> Same(Ret(default))
            [] s.st = "code" -> Same(Fail("error", "Unknown return code", s))
            [] s.st = "exc" -> Same(Fail("WiredTigerError", s.msg, s))

\* WiredTigerDBM.setdefault: the except clause turns a raised WiredTigerError into error
setdefault(key, default, f) ==
  LET oc == open_cursor(f)
      pk == _pre_key(key)
      s == search(f, tbl, pk.raw)
      pv == _pre_value(default)
      i == insert(f, 1, tbl, pk.raw, SetDefaultConfig)
  IN IF oc.st = "exc" THEN Same(Fail("WiredTigerError", oc.msg, oc))
     ELSE IF ~pk.ok THEN Same(Raise(pk.exc, ""))
     ELSE CASE s.st = "ok" -> Same(Ret(_post_value(tbl[pk.raw])))
            [] s.st = "notfound" ->
                 IF ~pv.ok THEN Same(Raise(pv.exc, ""))
                 ELSE ( CASE i.st = "ok" ->
                               Out(Ret(default), Put(tbl, pk.raw, pv.raw), txn, snap, exists)
                          [] i.st = "exc" -> Same(Fail("error", i.msg, i))
                          [] OTHER -> Same(Fail("error", "Set failed", i)) )
            [] s.st = "code" -> Same(Fail("error", "Get failed", s))
            [] s.st = "exc" -> Same(Fail("error", s.msg, s))

\* -------------------------------------------------------------- iteration

\* what one step of the generator yields at the key k of the table t
Yield(kind, k, t) ==
  CASE kind = "keys" -> _post_key(k)
    [] kind = "values" -> _post_value(t[k])
    [] kind = "items" -> <<_post_key(k), _post_value(t[k])>>

\* the while loop of keys() / values() / items() from the n-th cursor.next() on; the
\* caller asks for take more entries and then drops the generator; out is what was
\* yielded so far
RECURSIVE IterLoop(_, _, _, _, _, _)
IterLoop(kind, f, t, n, take, out) ==
  IF take = 0 THEN Ret(List(out))
  ELSE LET r == cursor_next(f, n, t)
       IN CASE r.st = "ok" ->
                 IterLoop(kind, f, t, n + 1, take - 1,
                          Append(out, Yield(kind, EngineOrder(DOMAIN t)[n], t)))
            [] r.st = "notfound" -> Ret(List(out))
            [] r.st = "code" -> Fail("error", "Unknown return code", r)
            [] r.st = "exc" -> Fail("WiredTigerError", r.msg, r)

\* a generator method consumed by a caller that asks for take entries: the body
\* (open_cursor first) runs only once an entry is asked for
Generator(kind, f, take) ==
  LET oc == open_cursor(f)
  IN IF take = 0 THEN Ret(List(<<>>))
     ELSE IF oc.st = "exc" THEN Fail("WiredTigerError", oc.msg, oc)
     ELSE IterLoop(kind, f, tbl, 1, take, <<>>)

\* WiredTigerDBM.keys
keys(f, take) == Generator("keys", f, take)

\* values() yielding the key of each entry
values_from_keys(f, take) == Generator("keys", f, take)

\* WiredTigerDBM.values
values(f, take) == Generator("values", f, take)

\* WiredTigerDBM.items
items(f, take) == Generator("items", f, take)

\* ------------------------------------------------------------ cursor scope

\* a method that leaves its cursor open
cursor_close_missing(n) == n

\* finally: cursor.close(), n cursors being open
cursor_close(n) == n - 1

\* the cursors open after a method of the shape
\*   cursor = open_cursor(...); try: ... finally: cursor.close()
\* whose open_cursor answered oc
Scoped(oc) == IF oc.st = "exc" THEN cursors ELSE cursor_close(cursors + 1)

\* the same for a generator method asked for take entries: no entry asked, no cursor
ScopedGenerator(oc, take) == IF take = 0 THEN cursors ELSE Scoped(oc)

\* ------------------------------------------------------- error translator

\* _ConvertErrors.__exit__ on a raised WiredTigerError e: sys.exit on a panic, else
\* run the registered functions and raise error(msg).  ran tells whether a
\* registered function (self.close) was run.
\* _ConvertErrors.__exit__ without its raise: the WiredTigerError goes on as it is
_ConvertErrors_no_raise(e, funcs) ==
  IF IsPanic(e.msg)
  THEN [res |-> Exit(e.msg, e), ran |-> FALSE]
  ELSE [res |-> Fail("WiredTigerError", e.msg, e), ran |-> funcs # <<>>]

_ConvertErrors(e, funcs) ==
  IF IsPanic(e.msg)
  THEN [res |-> Exit(e.msg, e), ran |-> FALSE]
  ELSE [res |-> Fail("error", e.msg, e), ran |-> funcs # <<>>]

\* ------------------------------------------------ transactional batch update

\* the insert loop of update() over an iterable of pairs, from entry i on
RECURSIVE UpdateLoop(_, _, _, _)
UpdateLoop(src, i, t, f) ==
  IF i > Len(src) THEN [st |-> "done", t |-> t, exc |-> "", e |-> Ok]
  ELSE LET pk == _pre_key(src[i][1])
           pv == _pre_value(src[i][2])
           ins == insert(f, i, t, pk.raw, UpdateConfig)
       IN IF ~pk.ok THEN [st |-> "pyexc", t |-> t, exc |-> pk.exc, e |-> Ok]
          ELSE IF ~pv.ok THEN [st |-> "pyexc", t |-> t, exc |-> pv.exc, e |-> Ok]
          ELSE CASE ins.st = "ok" -> UpdateLoop(src, i + 1, Put(t, pk.raw, pv.raw), f)
                 [] ins.st = "exc" -> [st |-> "exc", t |-> t, exc |-> "", e |-> ins]
                 [] OTHER -> [st |-> "assert", t |-> t, exc |-> "AssertionError", e |-> ins]

\* the except clause of update(): rollback_transaction(), then raise error(msg).
\* t is the table now, running whether a transaction runs, s the table it began from.
UpdateExcept(e, t, running, s, f) ==
  LET rb == rollback_transaction(f, running)
  IN IF rb.st = "exc"
     THEN Out(Fail("WiredTigerError", rb.msg, e), t, running, IF running THEN s ELSE EmptyTable, exists)
     ELSE Out(Fail("error", e.msg, e), s, FALSE, EmptyTable, exists)

\* __other[key]: the value the source holds under the key
Lookup(d, key) == d[CHOOSE i \in DOMAIN d : d[i][1] = key][2]

\* the branches of update() visiting the source from its last entry to its first
EntriesReversed(form, d) ==
  [i \in DOMAIN d |-> <<d[Len(d) + 1 - i][1], Lookup(d, d[Len(d) + 1 - i][1])>>]

\* the (key, value) each branch of update() hands to the cursor, in the order of its loop
Entries(form, d) ==
  CASE form = "Mapping" -> [i \in DOMAIN d |-> <<d[i][1], Lookup(d, d[i][1])>>]
    [] form = "keys" -> [i \in DOMAIN d |-> <<d[i][1], Lookup(d, d[i][1])>>]
    [] OTHER -> d

\* WiredTigerDBM.update
update(form, src, f) ==
  LET oc == open_cursor(f)
      b == begin_transaction(f)
      l == UpdateLoop(Entries(form, src), 1, tbl, f)
      c == commit_transaction(f)
  IN IF oc.st = "exc" THEN Same(Fail("WiredTigerError", oc.msg, oc))
     ELSE IF b.st = "exc" THEN UpdateExcept(b, tbl, txn, snap, f)
     ELSE CASE l.st = "done" ->
                 IF c.st = "exc"
                 THEN Out(Fail("WiredTigerError", c.msg, c), tbl, FALSE, EmptyTable, exists)
                 ELSE Out(Ret(NoneObj), l.t, FALSE, EmptyTable, exists)
            [] l.st = "exc" -> UpdateExcept(l.e, l.t, TRUE, tbl, f)
            [] l.st = "pyexc" -> Out(Raise(l.exc, ""), l.t, TRUE, tbl, exists)
            [] l.st = "assert" -> Out(Fail(l.exc, "", l.e), l.t, TRUE, tbl, exists)

\* ------------------------------------------------------------- lifecycle

\* WiredTigerDBM._drop then WiredTigerDBM._create, inside clear()'s _ConvertErrors
clear(f) ==
  LET d == drop(f, FALSE, exists, ro, txn)
      c == create(f, ro, txn)
  IN CASE d.st = "exc" -> Same(_ConvertErrors(d, <<>>).res)
       [] d.st = "code" -> Same(Fail("AssertionError", "", d))
       [] OTHER ->
            ( CASE c.st = "exc" -> Out(_ConvertErrors(c, <<>>).res, EmptyTable, txn, snap, FALSE)
                [] c.st = "code" -> Out(Fail("AssertionError", "", c), EmptyTable, txn, snap, FALSE)
                [] OTHER -> Out(Ret(NoneObj), EmptyTable, txn, snap, TRUE) )

\* what a lifecycle call leaves
Life(res, c, s, ex, t) == [res |-> res, conn |-> c, sess |-> s, exists |-> ex, tbl |-> t]

\* session.close(): a handle that was closed cannot be used again
session_close(f, held) == Call(f, "session_close", 1, IF held THEN Ok ELSE Exc(ClosedMsg))
\* conn.close()
conn_close(f, held) == Call(f, "conn_close", 1, IF held THEN Ok ELSE Exc(ClosedMsg))

\* WiredTigerDBM.close: session.close() (which rolls a running transaction back),
\* then conn.close() and assert ret == 0.  held: the handles of this Store are open.
close(f, held, running, t, s, ex) ==
  LET sc == session_close(f, held)
      cc == conn_close(f, held)
      after == IF running THEN s ELSE t
  IN IF sc.st = "exc" THEN Life(Fail("WiredTigerError", sc.msg, sc), held, held, ex, t)
     ELSE CASE cc.st = "exc" -> Life(Fail("WiredTigerError", cc.msg, cc), TRUE, FALSE, ex, after)
            [] cc.st = "code" -> Life(Fail("AssertionError", "", cc), TRUE, FALSE, ex, after)
            [] OTHER -> Life(Ret(NoneObj), FALSE, FALSE, ex, after)

\* WiredTigerDBM._initialized: "true", "false", or "none" when an error other than
\* "No such file or directory" is swallowed (the function falls off its end)
_initialized(f) ==
  LET oc == open_cursor(f)
  IN IF oc.st = "exc"
     THEN IF oc.msg = NoEntMsg THEN [v |-> "false", e |-> Ok] ELSE [v |-> "none", e |-> oc]
     ELSE [v |-> "true", e |-> Ok]

\* the functions registered with e.except_ when the call named call raises in __init__
RegisteredAt(mode, call) == <<>>

\* WiredTigerDBM.__init__(conn, mode), the connection being open
__init__(mode, f) ==
  LET os == Call(f, "open_session", 1, Ok)
      cc == conn_close(f, TRUE)
      ini == _initialized(f)
      cl == close(f, TRUE, FALSE, tbl, EmptyTable, exists)
      d == drop(f, TRUE, exists, FALSE, FALSE)
      c == create(f, FALSE, FALSE)
      \* _ConvertErrors.__exit__ for a WiredTigerError e raised by call, the table being (ex, t)
      conv(e, call, ex, t) ==
        LET x == _ConvertErrors(e, RegisteredAt(mode, call))
        IN IF x.ran THEN Life(x.res, FALSE, FALSE, ex, t) ELSE Life(x.res, TRUE, TRUE, ex, t)
      \* _create() and what follows it
      made(ex, t) ==
        CASE c.st = "exc" -> conv(c, "create", ex, t)
          [] c.st = "code" -> Life(Fail("AssertionError", "", c), TRUE, TRUE, ex, t)
          [] OTHER -> Life(Ret(NoneObj), TRUE, TRUE, TRUE, t)
  IN IF os.st = "exc"
     THEN CASE cc.st = "exc" -> Life(Fail("WiredTigerError", cc.msg, os), TRUE, FALSE, exists, tbl)
            [] cc.st = "code" -> Life(Fail("AssertionError", "", os), TRUE, FALSE, exists, tbl)
            [] OTHER -> Life(Fail("error", os.msg, os), FALSE, FALSE, exists, tbl)
     ELSE CASE mode \in {"r", "w"} ->
                 IF ini.v = "true" THEN Life(Ret(NoneObj), TRUE, TRUE, exists, tbl)
                 ELSE IF cl.res.k = "return"
                      THEN [cl EXCEPT !.res = IF ini.e = Ok
                                              THEN Raise("error", "Uninitialized database")
                                              ELSE Fail("error", "Uninitialized database", ini.e)]
                      ELSE cl
            [] mode = "c" -> made(exists, tbl)
            [] mode = "n" ->
                 ( CASE d.st = "exc" -> conv(d, "drop", exists, tbl)
                     [] d.st = "code" -> Life(Fail("AssertionError", "", d), TRUE, TRUE, exists, tbl)
                     [] OTHER -> made(FALSE, EmptyTable) )

\* the modes a caller may pass; "x" is not one of r, w, c, n
Modes == {"r", "w", "c", "n", "x"}

\* Path(file).mkdir(parents=True, exist_ok=True) in mode c
Mkdir(mode) == IF mode = "c" /\ home = "absent" THEN "empty" ELSE home

\* wiredtiger.wiredtiger_open(file, config): the location is locked by an open
\* connection; "create" needs the directory, no "create" needs a database
wiredtiger_open(mode, f) ==
  Call(f, "wiredtiger_open", 1,
       IF conn THEN Exc(BusyMsg)
       ELSE IF mode \in {"c", "n"}
            THEN IF Mkdir(mode) = "absent" THEN Exc(NoEntMsg) ELSE Ok
            ELSE IF home = "init" THEN Ok ELSE Exc(NoEntMsg))

\* WiredTigerDBM.open(file, mode): the result, the location, and what __init__ leaves
open(mode, f) ==
  LET wo == wiredtiger_open(mode, f)
      i == __init__(mode, f)
  IN IF mode \notin {"r", "w", "c", "n"}
     THEN [home |-> home, life |-> Life(Raise("ValueError", "Invalid mode"), conn, sess, exists, tbl)]
     ELSE IF wo.st = "exc"
          THEN [home |-> Mkdir(mode),
                life |-> Life(_ConvertErrors(wo, <<>>).res, conn, sess, exists, tbl)]
          ELSE [home |-> "init", life |-> i]

\* --------------------------------------------------------------- actions

NoSeq == <<>>

\* the record of a public call
Called(op, key, arg, src, mode, f, res) ==
  [op |-> op, key |-> key, arg |-> arg, src |-> src, mode |-> mode, f |-> f, res |-> res,
   pre |-> tbl, preExists |-> exists, preTxn |-> txn, preConn |-> conn, shown |-> atClose]

\* no close() since the Store was opened, or never any
NotClosed == [closed |-> FALSE, exists |-> FALSE, tbl |-> EmptyTable]

Init ==
  /\ alive = TRUE
  /\ home = "absent"
  /\ conn = FALSE
  /\ sess = FALSE
  /\ store = FALSE
  /\ ro = FALSE
  /\ exists = FALSE
  /\ tbl = EmptyTable
  /\ txn = FALSE
  /\ snap = EmptyTable
  /\ atClose = NotClosed
  /\ cursors = 0
  /\ last = [op |-> "idle", key |-> NoneObj, arg |-> NoneObj, src |-> NoSeq, mode |-> "",
             f |-> NoFault, res |-> Ret(NoneObj), pre |-> EmptyTable, preExists |-> FALSE,
             preTxn |-> FALSE, preConn |-> FALSE, shown |-> NotClosed]

\* the caller holds an open Store
Ready == alive /\ store /\ conn /\ sess /\ last.op = "idle"

\* sys.exit ends the process: its handles die with it
Terminated ==
  alive' = FALSE /\ conn' = FALSE /\ sess' = FALSE /\ store' = FALSE /\ cursors' = 0

\* a call that only reads
Query(res, rec, cur) ==
  /\ last' = rec
  /\ UNCHANGED <<home, ro, exists, tbl, txn, snap, atClose>>
  /\ IF res.k = "exit"
     THEN Terminated
     ELSE cursors' = cur /\ UNCHANGED <<alive, conn, sess, store>>

\* a call that may change the table
Mutation(o, rec, cur) ==
  /\ last' = rec
  /\ tbl' = o.tbl
  /\ txn' = o.txn
  /\ snap' = o.snap
  /\ exists' = o.exists
  /\ UNCHANGED <<home, ro, atClose>>
  /\ IF o.res.k = "exit"
     THEN Terminated
     ELSE cursors' = cur /\ UNCHANGED <<alive, conn, sess, store>>

PointFaults == {NoFault} \cup Faults({"open_cursor"}, Raised) \cup Faults({"search"}, Failing)
InsertFaults == {NoFault} \cup Faults({"open_cursor"}, Raised) \cup Faults({"insert"}, Failing)
RemoveFaults == {NoFault} \cup Faults({"open_cursor"}, Raised) \cup Faults({"remove"}, Failing)
PopFaults == PointFaults \cup Faults({"remove"}, Failing \cup {Gone})
SetDefaultFaults == PointFaults \cup Faults({"insert"}, Failing)
UpdateFaults ==
  {NoFault}
    \cup Faults({"open_cursor", "begin_transaction", "commit_transaction", "rollback_transaction"}, Raised)
    \cup { Fault("insert", n, kd) : n \in 1..MaxSrcLen, kd \in Failing }
IterFaults ==
  {NoFault}
    \cup Faults({"open_cursor"}, Raised)
    \cup { Fault("next", n, kd) : n \in 1..MaxTake, kd \in Failing }
ClearFaults == {NoFault} \cup Faults({"drop", "create"}, Failing)
CloseFaults == {NoFault} \cup Faults({"session_close"}, Raised) \cup Faults({"conn_close"}, Failing)
OpenFaults ==
  {NoFault}
    \cup Faults({"wiredtiger_open", "open_session", "open_cursor"}, Raised)
    \cup Faults({"drop", "create"}, Failing)

GetItem ==
  /\ Ready
  /\ \E key \in KeyObjs, f \in PointFaults :
       LET res == __getitem__(key, f)
       IN Query(res, Called("getitem", key, NoneObj, NoSeq, "", f, res), Scoped(open_cursor(f)))

Contains ==
  /\ Ready
  /\ \E key \in KeyObjs, f \in PointFaults :
       LET res == __contains__(key, f)
       IN Query(res, Called("contains", key, NoneObj, NoSeq, "", f, res), Scoped(open_cursor(f)))

Get ==
  /\ Ready
  /\ \E key \in KeyObjs, default \in DefaultObjs, f \in PointFaults :
       LET res == get(key, default, f)
       IN Query(res, Called("get", key, default, NoSeq, "", f, res), Scoped(open_cursor(f)))

SetItem ==
  /\ Ready
  /\ \E key \in KeyObjs, value \in ValObjs, f \in InsertFaults :
       LET o == __setitem__(key, value, f)
       IN Mutation(o, Called("setitem", key, value, NoSeq, "", f, o.res), Scoped(open_cursor(f)))

DelItem ==
  /\ Ready
  /\ \E key \in KeyObjs, f \in RemoveFaults :
       LET o == __delitem__(key, f)
       IN Mutation(o, Called("delitem", key, NoneObj, NoSeq, "", f, o.res), Scoped(open_cursor(f)))

Pop ==
  /\ Ready
  /\ \E key \in KeyObjs, default \in DefaultObjs, f \in PopFaults :
       LET o == pop(key, default, f)
       IN \* outside a transaction the session sees what other sessions commit
          /\ f.kind = Gone => ~txn /\ ~ro
          /\ Mutation(o, Called("pop", key, default, NoSeq, "", f, o.res), Scoped(open_cursor(f)))

SetDefault ==
  /\ Ready
  /\ \E key \in KeyObjs, default \in ValObjs, f \in SetDefaultFaults :
       LET o == setdefault(key, default, f)
       IN Mutation(o, Called("setdefault", key, default, NoSeq, "", f, o.res), Scoped(open_cursor(f)))

Update ==
  /\ Ready
  /\ \E form \in Forms, f \in UpdateFaults :
       \E src \in SourcesOf(form) :
         LET o == update(form, src, f)
         IN \* there is an n-th insert only if the source has n entries
            /\ f.call = "insert" => f.n <= Len(src)
            /\ Mutation(o, Called("update", NoneObj, SourceObj(form), src, "", f, o.res),
                        Scoped(open_cursor(f)))

Keys ==
  /\ Ready
  /\ \E take \in 0..MaxTake, f \in IterFaults :
       LET res == keys(f, take)
       IN \* there is an n-th cursor.next() only if n entries are asked for
          /\ f.call = "next" => f.n <= take
          /\ Query(res, Called("keys", NoneObj, Count(take), NoSeq, "", f, res),
                   ScopedGenerator(open_cursor(f), take))

Values ==
  /\ Ready
  /\ \E take \in 0..MaxTake, f \in IterFaults :
       LET res == values(f, take)
       IN \* there is an n-th cursor.next() only if n entries are asked for
          /\ f.call = "next" => f.n <= take
          /\ Query(res, Called("values", NoneObj, Count(take), NoSeq, "", f, res),
                   ScopedGenerator(open_cursor(f), take))

Items ==
  /\ Ready
  /\ \E take \in 0..MaxTake, f \in IterFaults :
       LET res == items(f, take)
       IN \* there is an n-th cursor.next() only if n entries are asked for
          /\ f.call = "next" => f.n <= take
          /\ Query(res, Called("items", NoneObj, Count(take), NoSeq, "", f, res),
                   ScopedGenerator(open_cursor(f), take))

Clear ==
  /\ Ready
  /\ \E f \in ClearFaults :
       LET o == clear(f)
       IN Mutation(o, Called("clear", NoneObj, NoneObj, NoSeq, "", f, o.res), cursors)

Close ==
  /\ Ready
  /\ \E f \in CloseFaults :
       LET l == close(f, TRUE, txn, tbl, snap, exists)
       IN /\ last' = Called("close", NoneObj, NoneObj, NoSeq, "", f, l.res)
          /\ atClose' = [closed |-> TRUE, exists |-> exists, tbl |-> tbl]
          /\ conn' = l.conn
          /\ sess' = l.sess
          /\ store' = (l.res.k # "return")
          /\ tbl' = l.tbl
          /\ exists' = l.exists
          /\ txn' = (txn /\ l.sess)
          /\ snap' = IF txn /\ l.sess THEN snap ELSE EmptyTable
          /\ cursors' = IF l.sess THEN cursors ELSE 0
          /\ UNCHANGED <<alive, home, ro>>

Open ==
  /\ alive
  /\ ~store
  /\ last.op = "idle"
  /\ \E mode \in Modes, f \in OpenFaults :
       LET o == open(mode, f)
           l == o.life
       IN /\ last' = Called("open", NoneObj, NoneObj, NoSeq, mode, f, l.res)
          /\ home' = o.home
          /\ tbl' = l.tbl
          /\ exists' = l.exists
          /\ atClose' = IF l.res.k = "return" THEN NotClosed ELSE atClose
          /\ UNCHANGED <<txn, snap>>
          /\ IF l.res.k = "exit"
             THEN Terminated /\ UNCHANGED ro
             ELSE /\ conn' = l.conn
                  /\ sess' = l.sess
                  /\ store' = (l.res.k = "return")
                  /\ ro' = IF l.res.k = "return" THEN mode = "r" ELSE ro
                  /\ UNCHANGED <<alive, cursors>>

\* close() on a Store that close() has already closed (an explicit close() inside a
\* with block, then __exit__): the same method on handles that are closed
CloseAgain ==
  /\ alive
  /\ ~store
  /\ atClose.closed
  /\ last.op = "idle"
  /\ LET l == close(NoFault, FALSE, FALSE, tbl, snap, exists)
     IN /\ last' = Called("reclose", NoneObj, NoneObj, NoSeq, "", NoFault, l.res)
        /\ UNCHANGED <<alive, home, conn, sess, store, ro, exists, tbl, txn, snap, atClose, cursors>>

\* the caller has the result of its call (a value or an exception) and goes on
Resume ==
  /\ last.op # "idle"
  /\ last' = [op |-> "idle", key |-> NoneObj, arg |-> NoneObj, src |-> NoSeq, mode |-> "",
              f |-> NoFault, res |-> Ret(NoneObj), pre |-> EmptyTable, preExists |-> FALSE,
              preTxn |-> FALSE, preConn |-> FALSE, shown |-> NotClosed]
  /\ UNCHANGED <<alive, home, conn, sess, store, ro, exists, tbl, txn, snap, atClose, cursors>>

Next ==
  \/ Resume
  \/ Open
  \/ Close
  \/ CloseAgain
  \/ GetItem
  \/ Contains
  \/ Get
  \/ SetItem
  \/ DelItem
  \/ Pop
  \/ SetDefault
  \/ Update
  \/ Keys
  \/ Values
  \/ Items
  \/ Clear

Spec == Init /\ [][Next]_vars

\* ---------------------------------------------------------------- claims

\* a key or value the codec accepts: bytes, or text within Latin-1
Supported(o) == o.t \in {"bytes", "str"} /\ \A i \in DOMAIN o.d : o.d[i] <= LatinMax
\* its bytes: Latin-1 maps the code point c to the byte c
RawOf(o) == o.d
\* no failure was injected into the last call
Natural == last.f = NoFault
\* the injected failure was met: the call it names was made and failed that way
Hit == last.f # NoFault /\ last.res.eng = Call(last.f, last.f.call, last.f.n, Ok)
Returned == last.res.k = "return"
Raises(exc) == last.res.k = "raise" /\ last.res.exc = exc
\* t is s with the key k removed and nothing else changed
Without(t, s, k) == DOMAIN t = (DOMAIN s) \ {k} /\ \A x \in DOMAIN t : t[x] = s[x]
\* t is s with k set to v and nothing else changed
With(t, s, k, v) ==
  /\ DOMAIN t = (DOMAIN s) \cup {k}
  /\ t[k] = v
  /\ \A x \in (DOMAIN s) \ {k} : t[x] = s[x]
\* the last entry of src with the same key as entry i
LastOf(src, i) ==
  CHOOSE j \in i..Len(src) :
    /\ RawOf(src[j][1]) = RawOf(src[i][1])
    /\ \A m \in (j + 1)..Len(src) : RawOf(src[m][1]) # RawOf(src[i][1])

\* C1: update(source) is all-or-nothing.  If an insert after the first one fails,
\* then after update raises the table is what it was before the call (no source
\* entry visible, every earlier key with its earlier value); if update returns,
\* every source entry is present (with the value of its last occurrence).
C1_UpdateAllOrNothing ==
  last.op = "update" =>
    /\ ( /\ last.f.call = "insert"
         /\ last.f.n >= 2
         /\ Hit
         /\ last.res.k = "raise"
         => tbl = last.pre )
    /\ ( Returned =>
           \A i \in 1..Len(last.src) :
             /\ RawOf(last.src[i][1]) \in DOMAIN tbl
             /\ tbl[RawOf(last.src[i][1])] = RawOf(last.src[LastOf(last.src, i)][2]) )

\* C2: every failed open leaves no handle behind: when open raises, the engine
\* session and the engine connection are both closed; and a Store the caller holds
\* is fully open (connection and session valid, table exists).
C2_FailedOpenLeavesNoHandle ==
  /\ (last.op = "open" /\ last.res.k = "raise" => ~conn /\ ~sess)
  /\ (last.op = "open" /\ Returned => conn /\ sess /\ exists)

\* C3 as claimed: right after store[k] = v succeeds, store[k] == v and k in store.
C3_SetThenGetEqual ==
  last.op = "setitem" /\ Returned =>
    /\ __getitem__(last.key, NoFault) = Ret(last.arg)
    /\ __contains__(last.key, NoFault) = Ret(TrueObj)

\* C3 amended: right after store[k] = v succeeds, store[k] is the bytes of v (v
\* itself if v is bytes, its Latin-1 encoding if v is text) and k in store.
C3_SetThenGetBytes ==
  last.op = "setitem" /\ Returned =>
    /\ __getitem__(last.key, NoFault) = Ret(Bytes(RawOf(last.arg)))
    /\ __contains__(last.key, NoFault) = Ret(TrueObj)

C3_Witness ==
  /\ last.op = "setitem"
  /\ Returned
  /\ last.key.t = "str"
  /\ last.arg.t = "str"
  /\ last.preTxn

\* C4: on a read-only Store, store[k] = v and clear() fail with error, and the
\* table after the failed call is the table before it (whatever the engine does).
C4_ReadOnlyRejects ==
  ro /\ last.op \in {"setitem", "clear"} =>
    /\ tbl = last.pre
    /\ exists = last.preExists
    /\ ~Returned
    /\ ( Natural /\ (last.op = "setitem" => Supported(last.key) /\ Supported(last.arg))
         => Raises("error") )

C4_Witness ==
  /\ ro
  /\ last.op = "clear"
  /\ Natural
  /\ Raises("error")
  /\ DOMAIN tbl # {}

C6_Pop ==
  /\ last.op = "pop"
  /\ last.preExists
  /\ Supported(last.key)
  /\ RawOf(last.key) \in DOMAIN last.pre
  /\ last.f.call \notin {"open_cursor", "search"}
  => IF ~ro /\ Natural
     THEN /\ last.res = Ret(Bytes(last.pre[RawOf(last.key)]))
          /\ Without(tbl, last.pre, RawOf(last.key))
          /\ pop(last.key, NoneObj, NoFault).res = Ret(NoneObj)
     ELSE Raises("error")

\* C7 as claimed: setdefault(k, v) on a present key returns the stored value and
\* leaves the table unchanged; on an absent key it inserts (k, v) and returns v,
\* and afterwards store[k] equals the value setdefault returned.
C7_SetDefaultThenGetEqual ==
  /\ last.op = "setdefault"
  /\ Natural
  /\ ~ro
  /\ last.preExists
  /\ Supported(last.key)
  /\ Supported(last.arg)
  => IF RawOf(last.key) \in DOMAIN last.pre
     THEN last.res = Ret(Bytes(last.pre[RawOf(last.key)])) /\ tbl = last.pre
     ELSE /\ last.res = Ret(last.arg)
          /\ With(tbl, last.pre, RawOf(last.key), RawOf(last.arg))
          /\ __getitem__(last.key, NoFault) = Ret(last.res.val)

\* C7 amended: as claimed, except that after an insert store[k] is the bytes of the
\* value setdefault returned (that value itself only if it is bytes).  If k is
\* present, v is ignored whatever it is.
C7_SetDefault ==
  /\ last.op = "setdefault"
  /\ Natural
  /\ ~ro
  /\ last.preExists
  /\ Supported(last.key)
  => IF RawOf(last.key) \in DOMAIN last.pre
     THEN last.res = Ret(Bytes(last.pre[RawOf(last.key)])) /\ tbl = last.pre
     ELSE Supported(last.arg) =>
            /\ last.res = Ret(last.arg)
            /\ With(tbl, last.pre, RawOf(last.key), RawOf(last.arg))
            /\ __getitem__(last.key, NoFault) = Ret(Bytes(RawOf(last.res.val)))

C7_Witness ==
  /\ last.op = "setdefault"
  /\ Natural
  /\ ~ro
  /\ Returned
  /\ last.arg.t = "str"
  /\ RawOf(last.key) \notin DOMAIN last.pre
  /\ DOMAIN last.pre # {}

\* the key of the last call is a supported key absent from the existing table, and
\* no failure was injected
AbsentKey ==
  /\ Natural
  /\ last.preExists
  /\ Supported(last.key)
  /\ RawOf(last.key) \notin DOMAIN last.pre

\* get, pop and setdefault never raise KeyError, whatever the key, the table and
\* the engine do
DefaultBearingNeverKeyError ==
  last.op \in {"get", "pop", "setdefault"} => ~Raises("KeyError")

\* C8 as claimed: for every key not present, store[k] and del store[k] fail with
\* KeyError and get(k, None) is None; get, pop and setdefault never raise KeyError.
C8_AbsenceAlwaysKeyError ==
  /\ (AbsentKey /\ last.op \in {"getitem", "delitem"} => Raises("KeyError"))
  /\ (AbsentKey /\ last.op = "get" /\ last.arg = NoneObj => last.res = Ret(NoneObj))
  /\ DefaultBearingNeverKeyError

\* C8 amended: as claimed, with del store[k] failing with KeyError on a writable
\* Store only (a read-only connection refuses the remove before it looks for the key).
C8_Absence ==
  /\ (AbsentKey /\ last.op = "getitem" => Raises("KeyError"))
  /\ (AbsentKey /\ last.op = "delitem" /\ ~ro => Raises("KeyError"))
  /\ (AbsentKey /\ last.op = "delitem" /\ ro => ~Raises("KeyError") /\ ~Returned)
  /\ (AbsentKey /\ last.op = "get" /\ last.arg = NoneObj => last.res = Ret(NoneObj))
  /\ DefaultBearingNeverKeyError

C8_Witness ==
  /\ AbsentKey
  /\ last.op = "get"
  /\ last.arg = NoneObj
  /\ last.key.t = "str"
  /\ DOMAIN tbl # {}

\* C9: reopening a closed store in mode r, w or c shows exactly the entries it
\* showed at the last close; mode n yields an empty table; mode w never creates a
\* missing table and mode c creates an empty one only if there is none.
C9_OpenModes ==
  last.op = "open" /\ Returned =>
    /\ exists
    /\ (last.mode \in {"r", "w", "c"} /\ last.shown.closed /\ last.shown.exists
          => tbl = last.shown.tbl)
    /\ (last.mode \in {"r", "w", "c"} /\ last.preExists => tbl = last.pre)
    /\ (last.mode = "c" /\ ~last.preExists => tbl = EmptyTable)
    /\ (last.mode = "n" => tbl = EmptyTable)
    /\ (last.mode \in {"r", "w"} => last.preExists)

\* C10: every engine failure other than not-found and panic, raised or returned by
\* an engine call of a public operation, reaches the caller as error carrying the
\* engine's message.
C10_EngineFailureIsError ==
  /\ last.op \in {"open", "get", "getitem", "setitem", "delitem", "contains", "pop",
                  "setdefault", "update", "clear"}
  /\ last.res.eng.st \in {"exc", "code"}
  /\ ~IsPanic(last.res.eng.msg)
  =>
    /\ Raises("error")
    /\ (last.res.eng.st = "exc" => last.res.msg = last.res.eng.msg)

\* the last call met an engine panic: a WiredTigerError whose message starts with WT_PANIC:
MetPanic == last.res.eng.st = "exc" /\ IsPanic(last.res.eng.msg)

\* C11: an engine panic raised during any operation (store[k] = v, setdefault and
\* update included) terminates the process with the engine's message: the call
\* ends in sys.exit(msg), not in error, and the process is gone, so that no further
\* operation runs.
C11_PanicTerminates ==
  last.op # "idle" /\ MetPanic =>
    /\ last.res.k = "exit"
    /\ last.res.msg = last.res.eng.msg
    /\ ~alive

\* an object the codec rejects for its type: neither bytes nor text
BadType(o) == o.t \notin {"bytes", "str"}
\* the last call was handed a key or a value of a rejected type
GivenBadType ==
  \/ last.op \in {"get", "getitem", "delitem", "contains", "pop", "setdefault"} /\ BadType(last.key)
  \/ last.op = "setitem" /\ (BadType(last.key) \/ BadType(last.arg))
  \/ last.op = "update" /\ \E i \in 1..Len(last.src) : BadType(last.src[i][1]) \/ BadType(last.src[i][2])

\* C12: a key or value that is neither bytes nor text makes get, store[k],
\* store[k] = v, del, contains, pop, setdefault and update fail with TypeError
\* before any engine call: whatever the engine would answer the failure is
\* TypeError, the table is what it was and no transaction has been begun, also
\* when the rejected entry of an update source is not the first.
C12_TypeErrorBeforeEngine ==
  GivenBadType =>
    /\ Raises("TypeError")
    /\ tbl = last.pre
    /\ txn = last.preTxn

\* C13: close() is idempotent: close() on a Store already closed (an explicit close()
\* inside a with block followed by the close of __exit__) returns without error and
\* leaves the Store closed.
C13_CloseIdempotent ==
  last.op = "reclose" => Returned /\ ~store

\* C14: open(file, mode) with a mode other than r, w, c, n fails with the module's
\* error and opens no engine connection.
C14_InvalidMode ==
  last.op = "open" /\ last.mode \notin {"r", "w", "c", "n"} =>
    /\ Raises("error")
    /\ conn = last.preConn
    /\ ~store

\* the last call asked a sequence for more entries than the table has: it ran to the end
Exhausted == last.arg.d[1] > Cardinality(DOMAIN last.pre)
\* the elements of the list a call returned
Elems(res) == res.val.d
\* zip(a, b)
Zip(a, b) == [i \in 1..(IF Len(a) < Len(b) THEN Len(a) ELSE Len(b)) |-> <<a[i], b[i]>>]
\* the keys a caller may ask about: the ones it passes and the ones it was given
AskedKeys == KeyObjs \cup { Bytes(k) : k \in DOMAIN tbl }
\* keys(), values() and items(), taken to the end one after the other with no
\* mutation in between, agree: every entry once, in one order, items() the zip
SequencesAgree(ks, vs, its) ==
  /\ Len(ks) = Cardinality(DOMAIN tbl)
  /\ \A k \in DOMAIN tbl : \E i \in 1..Len(ks) : ks[i] = Bytes(k)
  /\ Len(vs) = Len(ks)
  /\ \A i \in 1..Len(ks) : vs[i] = Bytes(tbl[ks[i].d])
  /\ its = Zip(ks, vs)
\* an exhaustive items() with no injected failure on a Store with its table
ItemsTaken == last.op = "items" /\ Natural /\ last.preExists /\ Exhausted

\* C15 as claimed: with no mutation in between, keys(), values() and items() each
\* yield every entry exactly once in the same order and then end, list(items()) is
\* list(zip(keys(), values())), and the set of keys yielded is the set of keys k
\* with (k in store).
C15_SequencesAndMembership ==
  ItemsTaken =>
    LET ks == Elems(keys(NoFault, MaxTake))
        vs == Elems(values(NoFault, MaxTake))
    IN /\ Returned
       /\ SequencesAgree(ks, vs, Elems(last.res))
       /\ { ks[i] : i \in 1..Len(ks) }
            = { k \in AskedKeys : __contains__(k, NoFault) = Ret(TrueObj) }

\* C15 amended: as claimed, the set of keys yielded being the set of raw-bytes keys
\* k with (k in store): a text key is in the store under its Latin-1 bytes and is
\* yielded as those bytes.
C15_Sequences ==
  ItemsTaken =>
    LET ks == Elems(keys(NoFault, MaxTake))
        vs == Elems(values(NoFault, MaxTake))
    IN /\ Returned
       /\ SequencesAgree(ks, vs, Elems(last.res))
       /\ { ks[i] : i \in 1..Len(ks) }
            = { k \in AskedKeys : k.t = "bytes" /\ __contains__(k, NoFault) = Ret(TrueObj) }
       /\ \A k \in AskedKeys :
            k.t = "str" /\ __contains__(k, NoFault) = Ret(TrueObj)
              => \E i \in 1..Len(ks) : ks[i] = Bytes(RawOf(k))

C15_Witness ==
  /\ ItemsTaken
  /\ Returned
  /\ Len(Elems(last.res)) = 2
  /\ Elems(last.res)[1][2] # Elems(last.res)[2][2]
  /\ last.preTxn

\* C16: every update() that begins a transaction has ended it (commit or rollback)
\* when it returns or raises, whatever the exit path; so no transaction runs on the
\* session between public calls and no later single-key write is made inside one.
C16_UpdateEndsTransaction ==
  /\ (last.op = "update" /\ ~last.preTxn => ~txn)
  /\ (last.op = "idle" => ~txn)
  /\ (last.op \in {"setitem", "delitem", "pop", "setdefault"} => ~last.preTxn)

\* the operations that work through a cursor
CursorOps ==
  {"get", "getitem", "setitem", "delitem", "contains", "pop", "setdefault", "update",
   "keys", "values", "items"}

\* C17: no cursor leaks: when a point operation has returned or raised (success,
\* not-found or error) its cursor is closed, and so is the cursor of a keys() /
\* values() / items() sequence taken to its end or dropped before; after any
\* sequence of completed operations no cursor is open on the session.
C17_NoCursorLeak ==
  /\ (last.op \in CursorOps => cursors = 0)
  /\ (last.op = "idle" => cursors = 0)

\* a sequence dropped after its first entry, the table having two
C17_Witness ==
  /\ last.op = "keys"
  /\ Returned
  /\ Cardinality(DOMAIN last.pre) = 2
  /\ Len(Elems(last.res)) = 1
  /\ cursors = 0

\* C18: clear() keeps the Store fully open with its table on every exit path: when
\* it returns the table exists, is empty and answers further operations; when it
\* raises (drop refused, or create failing after the drop) the table still exists.
C18_ClearKeepsTable ==
  last.op = "clear" /\ last.preExists /\ last.res.k # "exit" =>
    /\ store /\ conn /\ sess
    /\ exists
    /\ ( Returned =>
           /\ tbl = EmptyTable
           /\ __contains__(Bytes(<<97>>), NoFault) = Ret(FalseObj) )

\* C19: an engine not-found is never reported as error, in any operation: a key that
\* is absent gives KeyError or the default, and so does pop(k, default) when another
\* session removes k between pop's search and its remove.
C19_NotFoundIsNotError ==
  /\ ( /\ last.op \in {"get", "getitem", "delitem", "contains", "pop", "setdefault"}
       /\ AbsentKey
       /\ last.res.eng = Ok
       => ~Raises("error") )
  /\ (last.res.eng.st = "notfound" => ~Raises("error"))

\* the raw keys of the source of the last update
SourceKeys == { RawOf(last.src[i][1]) : i \in 1..Len(last.src) }

\* C20: a successful update(source) has applied one overwriting insert per entry in
\* source order: every key of the source maps to the value of its last occurrence,
\* every other key keeps its value, and no key is added or removed beyond those of
\* the source; for a Mapping, an object with keys(), and an iterable of pairs alike.
C20_UpdateApplies ==
  last.op = "update" /\ Returned =>
    /\ last.arg \in { SourceObj(form) : form \in Forms }
    /\ \A i \in 1..Len(last.src) :
         /\ RawOf(last.src[i][1]) \in DOMAIN tbl
         /\ tbl[RawOf(last.src[i][1])] = RawOf(last.src[LastOf(last.src, i)][2])
    /\ \A k \in (DOMAIN last.pre) \ SourceKeys : k \in DOMAIN tbl /\ tbl[k] = last.pre[k]
    /\ DOMAIN tbl = (DOMAIN last.pre) \cup SourceKeys
    /\ ~txn

\* a Mapping whose two keys are different objects with the same bytes and different
\* values, handed to a Store that holds that key and another one
C20_Witness ==
  /\ last.op = "update"
  /\ Returned
  /\ last.arg = SourceObj("Mapping")
  /\ Len(last.src) = 2
  /\ RawOf(last.src[1][2]) # RawOf(last.src[2][2])
  /\ Cardinality(DOMAIN last.pre) = 2
  /\ last.pre[RawOf(last.src[1][1])] # RawOf(last.src[2][2])

====
